---- MODULE Spec2Model ----
(***************************************************************************)
(* Model of dye_injector.ino: the serial line assembler (serialEvent),     *)
(* the command dispatcher (loop) and the Inject stage parser               *)
(* (processInjectCommand).                                                 *)
(*                                                                         *)
(* A String is a sequence of one-character strings.  Positions are         *)
(* 0-based as in the Arduino String class.  int / unsigned int are the     *)
(* 16-bit types of the AVR target.  dyeInjected and volumePerRevolution    *)
(* are held as exact multiples of 1/42188 mL, so that                      *)
(* volumePerRevolution = (60.0/4.2188)/40.0 mL = 15000 units and one step  *)
(* is 75 units; the rounding of the float arithmetic is not modelled.      *)
(***************************************************************************)
EXTENDS Integers, Sequences, FiniteSets, TLC

\* ------------------------------------------------------------------ bounds

\* number of lines the host sends in one run of the device
MaxLines == 2

\* bytes that may wait in the serial receive queue
MaxRx == 3

\* by how many characters the host's long line exceeds the line buffer
LongExtra == 2

\* number of lines longer than the line buffer the host sends in one run
MaxLongLines == 1

\* most comma-separated pieces in a generated Inject command
MaxPieces == 6

\* ------------------------------------------------------- program constants

commandFromComputerMaxLength == 256

stepsPerRevolution == 200

volumePerRevolution == 15000

MAX_INJECTION_STAGES == 4

\* ------------------------------------------------- the Arduino String class

NL == "\n"

DigitSeq == <<"0", "1", "2", "3", "4", "5", "6", "7", "8", "9">>

DigitChars == {DigitSeq[k] : k \in 1..10}

DigitVal(c) == (CHOOSE k \in 1..10 : DigitSeq[k] = c) - 1

\* int and unsigned int are 16 bits wide
ToUInt16(n) == n % 65536

ToInt16(n) == IF n % 65536 >= 32768 THEN (n % 65536) - 65536 ELSE n % 65536

\* String::indexOf(ch): position of the first ch, -1 when there is none
IndexOf(s, c) ==
    IF \E k \in 1..Len(s) : s[k] = c
    THEN (CHOOSE k \in 1..Len(s) : s[k] = c /\ \A j \in 1..(k - 1) : s[j] # c) - 1
    ELSE -1

\* String::substring(left, right): both arguments are unsigned int
Substring(s, left, right) ==
    LET l0 == ToUInt16(left)
        r0 == ToUInt16(right)
        l  == IF l0 > r0 THEN r0 ELSE l0
        r1 == IF l0 > r0 THEN l0 ELSE r0
        r  == IF r1 > Len(s) THEN Len(s) ELSE r1
    IN  IF l > Len(s) THEN << >> ELSE SubSeq(s, l + 1, r)

\* String::substring(left) is substring(left, length())
SubstringFrom(s, left) == Substring(s, left, Len(s))

\* String::startsWith(prefix)
StartsWith(s, p) == Len(s) >= Len(p) /\ SubSeq(s, 1, Len(p)) = p

RECURSIVE SkipSpace(_)
SkipSpace(s) ==
    IF s # << >> /\ Head(s) \in {" ", NL} THEN SkipSpace(Tail(s)) ELSE s

RECURSIVE Digits(_, _)
Digits(s, acc) ==
    IF s = << >> \/ Head(s) \notin DigitChars
    THEN acc
    ELSE Digits(Tail(s), acc * 10 + DigitVal(Head(s)))

\* String::toInt() is atol(): leading white space, an optional sign, then
\* the digits up to the first character that is not one; 0 when there are none
ToInt(s) ==
    LET t == SkipSpace(s)
    IN  IF t = << >> THEN 0
        ELSE IF Head(t) = "-" THEN 0 - Digits(Tail(t), 0)
        ELSE IF Head(t) = "+" THEN Digits(Tail(t), 0)
        ELSE Digits(t, 0)

\* no abs(): the int is converted to unsigned int as it is
AbsMissing(x) == x

\* the abs() macro, ((x)>0?(x):-(x)), on a 16-bit int; for -32768 the
\* negation overflows, and the negation the AVR does leaves -32768
Abs(x) == IF x > 0 THEN x ELSE ToInt16(0 - x)

\* ------------------------------------------------------------ command texts

StatusCmd == <<"S", "t", "a", "t", "u", "s", "?">>

ProgramCmd == <<"P", "r", "o", "g", "r", "a", "m", "?">>

VersionCmd == <<"V", "e", "r", "s", "i", "o", "n", "?">>

DyeInjectedCmd == <<"D", "y", "e", "I", "n", "j", "e", "c", "t", "e", "d", "?">>

ResetDyeInjectedCmd ==
    <<"R", "e", "s", "e", "t", "D", "y", "e", "I", "n", "j", "e", "c", "t", "e", "d">>

StepsPerRevolutionCmd ==
    <<"S", "t", "e", "p", "s", "P", "e", "r", "R", "e", "v", "o", "l", "u", "t", "i", "o", "n", "?">>

VolumePerRevolutionCmd ==
    <<"V", "o", "l", "u", "m", "e", "P", "e", "r", "R", "e", "v", "o", "l", "u", "t", "i", "o", "n", "?">>

InjectPrefix == <<"I", "n", "j", "e", "c", "t", ":", " ">>

freqdriveMotorControlVersion == "0.1"

\* ------------------------------------------------------------------- state

VARIABLES
    commandFromComputerString,    \* the line buffer
    commandFromComputerComplete,  \* a newline has been received
    dyeInjected,                  \* injected volume, in units of 1/42188 mL
    injectionStageSpeeds,         \* unsigned int [MAX_INJECTION_STAGES]
    injectionStageSteps,          \* int [MAX_INJECTION_STAGES]
    numberStages,                 \* loop(): result of processInjectCommand
    i,                            \* loop(): index of the stage loop
    pc,                           \* "loop", "stage" or "serialEvent"
    rx,                           \* bytes received and not yet read
    trace,                        \* serial output and motor calls, in order
    dispatched,                   \* the command texts loop() has dispatched
    sentLines,                    \* the lines the host has started to send
    toSend,                       \* bytes of the current line still to send
    pipelined                     \* the host started a line before the answer
                                  \* to the previous one

vars == <<commandFromComputerString, commandFromComputerComplete, dyeInjected,
          injectionStageSpeeds, injectionStageSteps, numberStages, i, pc, rx,
          trace, dispatched, sentLines, toSend, pipelined>>

device == <<commandFromComputerString, commandFromComputerComplete, dyeInjected,
            injectionStageSpeeds, injectionStageSteps, numberStages, i, pc,
            trace, dispatched>>

host == <<sentLines, toSend, pipelined>>

\* ----------------------------------------------------------------- events

\* Serial.print(text + "\n")
Response(t) == [ev |-> "serial", txt |-> t, n |-> 0, dir |-> "-"]

\* Serial.print(floatToString(x) + "\n"): the text is the formatted value
floatToString(x) == [ev |-> "serial", txt |-> "float", n |-> x, dir |-> "-"]

\* Serial.print(String(stepsPerRevolution) + "\n")
UIntResponse(x) == [ev |-> "serial", txt |-> "uint", n |-> x, dir |-> "-"]

\* stepper->setSpeed(rpm)
SetSpeedCall(rpm) == [ev |-> "setSpeed", txt |-> "", n |-> rpm, dir |-> "-"]

\* stepper->step(steps, dir, DOUBLE)
StepCall(steps, d) == [ev |-> "step", txt |-> "", n |-> steps, dir |-> d]

\* stepper->release()
ReleaseCall == [ev |-> "release", txt |-> "", n |-> 0, dir |-> "-"]

\* --------------------------------------------------- processInjectCommand

\* the stage reader that does the first four stages of a longer command
RECURSIVE ReadStagesFirstFour(_, _, _, _)
ReadStagesFirstFour(s, k, steps, speeds) ==
    IF k >= MAX_INJECTION_STAGES
    THEN [ret |-> k, steps |-> steps, speeds |-> speeds]
    ELSE
      LET index == IndexOf(s, " ")
      IN  IF index = -1
          THEN [ret |-> IF Len(s) = 0 THEN k ELSE -1,
                steps |-> steps, speeds |-> speeds]
          ELSE
            LET steps2 == [steps EXCEPT ![k] = ToInt16(ToInt(Substring(s, 0, index)))]
                s2     == SubstringFrom(s, index + 1)
                index2 == IndexOf(s2, ",")
            IN  IF index2 = -1
                THEN [ret |-> k + 1, steps |-> steps2,
                      speeds |-> [speeds EXCEPT ![k] = ToUInt16(ToInt(s2))]]
                ELSE ReadStagesFirstFour(SubstringFrom(s2, index2 + 1), k + 1, steps2,
                       [speeds EXCEPT
                          ![k] = ToUInt16(ToInt(Substring(s2, 0, index2)))])

RECURSIVE ReadStages(_, _, _, _)
ReadStages(s, k, steps, speeds) ==
    IF k >= MAX_INJECTION_STAGES
    THEN [ret |-> -1, steps |-> steps, speeds |-> speeds]
    ELSE
      LET index == IndexOf(s, " ")
      IN  IF index = -1
          THEN [ret |-> IF Len(s) = 0 THEN k ELSE -1,
                steps |-> steps, speeds |-> speeds]
          ELSE
            LET steps2 == [steps EXCEPT ![k] = ToInt16(ToInt(Substring(s, 0, index)))]
                s2     == SubstringFrom(s, index + 1)
                index2 == IndexOf(s2, ",")
            IN  IF index2 = -1
                THEN [ret |-> k + 1, steps |-> steps2,
                      speeds |-> [speeds EXCEPT ![k] = ToUInt16(ToInt(s2))]]
                ELSE ReadStages(SubstringFrom(s2, index2 + 1), k + 1, steps2,
                       [speeds EXCEPT
                          ![k] = ToUInt16(ToInt(Substring(s2, 0, index2)))])

processInjectCommand(s, steps, speeds) ==
    IF ~StartsWith(s, InjectPrefix)
    THEN [ret |-> -1, steps |-> steps, speeds |-> speeds]
    ELSE ReadStages(SubstringFrom(s, 8), 0, steps, speeds)

\* ---------------------------------------------------------------- loop()

\* the trimmed command text of line 168
TrimmedCommand(buf) == Substring(buf, 0, IndexOf(buf, NL))

\* the stage loop with the two directions exchanged
StageCallsReversed(steps, speed) ==
    << SetSpeedCall(speed),
       StepCall(ToUInt16(Abs(steps)), IF steps > 0 THEN "BACKWARD" ELSE "FORWARD"),
       ReleaseCall >>

\* the stage loop that writes "Executing" for each stage
StageCallsAnnounced(steps, speed) ==
    << Response("Executing"),
       SetSpeedCall(speed),
       StepCall(ToUInt16(Abs(steps)), IF steps > 0 THEN "FORWARD" ELSE "BACKWARD"),
       ReleaseCall >>

\* the stage loop that leaves the motor holding after the move
StageCallsHolding(steps, speed) ==
    << SetSpeedCall(speed),
       StepCall(ToUInt16(Abs(steps)), IF steps > 0 THEN "FORWARD" ELSE "BACKWARD") >>

\* one pass of the stage loop of lines 211-221
StageCalls(steps, speed) ==
    << SetSpeedCall(speed),
       StepCall(ToUInt16(Abs(steps)), IF steps > 0 THEN "FORWARD" ELSE "BACKWARD"),
       ReleaseCall >>

\* the volume of a stage counted without its sign
StageVolumeUnsigned(steps) == (Abs(steps) * volumePerRevolution) \div stepsPerRevolution

StageVolume(steps) == (steps * volumePerRevolution) \div stepsPerRevolution

\* the end of a command that resets the flag and keeps the text
EndOfCommandKeepsText ==
    /\ UNCHANGED commandFromComputerString
    /\ commandFromComputerComplete' = FALSE
    /\ pc' = "serialEvent"

\* the end of a command that clears the text and leaves the flag set
EndOfCommandKeepsFlag ==
    /\ commandFromComputerString' = << >>
    /\ UNCHANGED commandFromComputerComplete
    /\ pc' = "serialEvent"

\* lines 231-232, and the return into the core's serialEventRun()
EndOfCommand ==
    /\ commandFromComputerString' = << >>
    /\ commandFromComputerComplete' = FALSE
    /\ pc' = "serialEvent"

\* loop() with no complete command
LoopIdle ==
    /\ pc = "loop"
    /\ ~commandFromComputerComplete
    /\ pc' = "serialEvent"
    /\ UNCHANGED <<commandFromComputerString, commandFromComputerComplete,
                   dyeInjected, injectionStageSpeeds, injectionStageSteps,
                   numberStages, i, rx, trace, dispatched, host>>

\* a comparison that accepts any text the command starts
StringEqualsStart(a, b) == StartsWith(a, b)

\* String::operator==(const char *)
StringEquals(a, b) == a = b

\* an answer that also clears the counter
AnswerAndClear(r) ==
    /\ trace' = Append(trace, r)
    /\ EndOfCommand
    /\ dyeInjected' = 0
    /\ UNCHANGED <<injectionStageSpeeds, injectionStageSteps, numberStages, i>>

\* a command that is answered with one line and changes nothing else
Answer(r) ==
    /\ trace' = Append(trace, r)
    /\ EndOfCommand
    /\ UNCHANGED <<dyeInjected, injectionStageSpeeds, injectionStageSteps,
                   numberStages, i>>

\* the reset that acknowledges and leaves the counter as it is
ResetDyeInjectedKeeps ==
    /\ UNCHANGED dyeInjected
    /\ trace' = Append(trace, Response("ACK"))
    /\ EndOfCommand
    /\ UNCHANGED <<injectionStageSpeeds, injectionStageSteps, numberStages, i>>

\* lines 182-186
ResetDyeInjected ==
    /\ dyeInjected' = 0
    /\ trace' = Append(trace, Response("ACK"))
    /\ EndOfCommand
    /\ UNCHANGED <<injectionStageSpeeds, injectionStageSteps, numberStages, i>>

\* lines 191-206: the stages are read, the command is answered, and the stage
\* loop is entered when there is a stage to do
Inject(cmd) ==
    LET p == processInjectCommand(cmd, injectionStageSteps, injectionStageSpeeds)
    IN  /\ injectionStageSteps' = p.steps
        /\ injectionStageSpeeds' = p.speeds
        /\ numberStages' = p.ret
        /\ UNCHANGED dyeInjected
        /\ IF p.ret = -1
           THEN /\ trace' = Append(trace, Response("Invalid"))
                /\ EndOfCommand
                /\ UNCHANGED i
           ELSE /\ trace' = Append(trace, Response("Executing"))
                /\ i' = 0
                /\ IF 0 < p.ret
                   THEN /\ pc' = "stage"
                        /\ commandFromComputerString' = cmd
                        /\ UNCHANGED commandFromComputerComplete
                   ELSE EndOfCommand

\* loop() with a complete command, up to the start of the stage loop
LoopDispatch ==
    /\ pc = "loop"
    /\ commandFromComputerComplete
    /\ LET cmd == TrimmedCommand(commandFromComputerString)
       IN  /\ dispatched' = Append(dispatched, cmd)
           /\ IF StringEquals(cmd, StatusCmd)
                THEN Answer(Response("OK"))
              ELSE IF StringEquals(cmd, ProgramCmd)
                THEN Answer(Response("Dye Injector"))
              ELSE IF StringEquals(cmd, VersionCmd)
                THEN Answer(Response(freqdriveMotorControlVersion))
              ELSE IF StringEquals(cmd, DyeInjectedCmd)
                THEN Answer(floatToString(dyeInjected))
              ELSE IF StringEquals(cmd, ResetDyeInjectedCmd)
                THEN ResetDyeInjected
              ELSE IF StringEquals(cmd, StepsPerRevolutionCmd)
                THEN Answer(UIntResponse(stepsPerRevolution))
              ELSE IF StringEquals(cmd, VolumePerRevolutionCmd)
                THEN Answer(floatToString(volumePerRevolution))
              ELSE IF StartsWith(cmd, InjectPrefix)
                THEN Inject(cmd)
              ELSE Answer(Response("Invalid"))
    /\ UNCHANGED <<rx, host>>

\* one pass of the stage loop; after the last one, the end of loop()
ExecuteStage ==
    /\ pc = "stage"
    /\ i < numberStages
    /\ trace' = trace \o StageCalls(injectionStageSteps[i], injectionStageSpeeds[i])
    /\ dyeInjected' = dyeInjected + StageVolume(injectionStageSteps[i])
    /\ i' = i + 1
    /\ IF i + 1 < numberStages
       THEN UNCHANGED <<commandFromComputerString, commandFromComputerComplete, pc>>
       ELSE EndOfCommand
    /\ UNCHANGED <<injectionStageSpeeds, injectionStageSteps, numberStages,
                   rx, dispatched, host>>

\* ----------------------------------------------------------- serialEvent()

\* a full buffer that drops the new character
AppendCharUnlessFull(buf, c) ==
    IF Len(buf) < commandFromComputerMaxLength THEN Append(buf, c) ELSE buf

\* a full buffer that puts the new character over the last one, unshifted
AppendCharOverLast(buf, c) ==
    IF Len(buf) < commandFromComputerMaxLength
    THEN Append(buf, c)
    ELSE [buf EXCEPT ![Len(buf)] = c]

\* lines 262-272: append, or shift everything down one slot when full
AppendChar(buf, c) ==
    IF Len(buf) < commandFromComputerMaxLength
    THEN Append(buf, c)
    ELSE [k \in 1..Len(buf) |-> IF k < Len(buf) THEN buf[k + 1] ELSE c]

\* a read that is not held back until loop() has returned
SerialEventReadAnywhere ==
    /\ rx # << >>
    /\ commandFromComputerString' = AppendChar(commandFromComputerString, Head(rx))
    /\ commandFromComputerComplete' =
         (commandFromComputerComplete \/ Head(rx) = NL)
    /\ rx' = Tail(rx)
    /\ UNCHANGED <<dyeInjected, injectionStageSpeeds, injectionStageSteps,
                   numberStages, i, pc, trace, dispatched, host>>

\* one pass of the while loop: read a byte and store it
SerialEventRead ==
    /\ pc = "serialEvent"
    /\ rx # << >>
    /\ commandFromComputerString' = AppendChar(commandFromComputerString, Head(rx))
    /\ commandFromComputerComplete' =
         (commandFromComputerComplete \/ Head(rx) = NL)
    /\ rx' = Tail(rx)
    /\ UNCHANGED <<dyeInjected, injectionStageSpeeds, injectionStageSteps,
                   numberStages, i, pc, trace, dispatched, host>>

\* Serial.available() is 0: back to loop()
SerialEventReturn ==
    /\ pc = "serialEvent"
    /\ rx = << >>
    /\ pc' = "loop"
    /\ UNCHANGED <<commandFromComputerString, commandFromComputerComplete,
                   dyeInjected, injectionStageSpeeds, injectionStageSteps,
                   numberStages, i, rx, trace, dispatched, host>>

\* ---------------------------------------------------------------- the host

NullaryCommands ==
    {StatusCmd, ProgramCmd, VersionCmd, DyeInjectedCmd, ResetDyeInjectedCmd,
     StepsPerRevolutionCmd, VolumePerRevolutionCmd}

\* "Inject: 20 6,-7 3"
InjectTwoStages ==
    InjectPrefix \o <<"2", "0", " ", "6", ",", "-", "7", " ", "3">>

\* "Inject: 5", a stage without its speed
InjectNoSpeed == InjectPrefix \o <<"5">>

\* the lines the host chooses from
HostLines ==
    {StatusCmd, ResetDyeInjectedCmd, InjectTwoStages, InjectNoSpeed, <<"x">>, << >>}

\* the responses written so far
Responses == SelectSeq(trace, LAMBDA e : e.ev = "serial")

\* the motor calls made so far
MotorCalls == SelectSeq(trace, LAMBDA e : e.ev # "serial")

\* the host starts a line of menu: its first byte (the newline, for an empty
\* line) arrives
HostStart(menu) ==
    /\ toSend = << >>
    /\ Len(sentLines) < MaxLines
    /\ Len(rx) < MaxRx
    /\ \E line \in menu :
         /\ sentLines' = Append(sentLines, line)
         /\ rx' = Append(rx, Head(Append(line, NL)))
         /\ toSend' = Tail(Append(line, NL))
    /\ pipelined' = (pipelined \/ Len(Responses) < Len(sentLines))
    /\ UNCHANGED device

HostStartLine == HostStart(HostLines)

\* the next byte of the line arrives
HostSendByte ==
    /\ toSend # << >>
    /\ Len(rx) < MaxRx
    /\ rx' = Append(rx, Head(toSend))
    /\ toSend' = Tail(toSend)
    /\ UNCHANGED <<sentLines, pipelined>>
    /\ UNCHANGED device

\* ------------------------------------------------------- the specifications

\* setup(), and the zero-initialised globals
Init ==
    /\ commandFromComputerString = << >>
    /\ commandFromComputerComplete = FALSE
    /\ dyeInjected = 0
    /\ injectionStageSpeeds = [k \in 0..(MAX_INJECTION_STAGES - 1) |-> 0]
    /\ injectionStageSteps = [k \in 0..(MAX_INJECTION_STAGES - 1) |-> 0]
    /\ numberStages = 0
    /\ i = 0
    /\ pc = "loop"
    /\ rx = << >>
    /\ trace = << >>
    /\ dispatched = << >>
    /\ sentLines = << >>
    /\ toSend = << >>
    /\ pipelined = FALSE

Next ==
    \/ LoopIdle
    \/ LoopDispatch
    \/ ExecuteStage
    \/ SerialEventRead
    \/ SerialEventReturn
    \/ HostStartLine
    \/ HostSendByte

Spec == Init /\ [][Next]_vars

LowerSeq == <<"a", "b", "c", "d", "e", "f", "g", "h", "i", "j", "k", "l", "m",
              "n", "o", "p", "q", "r", "s", "t", "u", "v", "w", "x", "y", "z">>

UpperSeq == <<"A", "B", "C", "D", "E", "F", "G", "H", "I", "J", "K", "L", "M",
              "N", "O", "P", "Q", "R", "S", "T", "U", "V", "W", "X", "Y", "Z">>

\* --- the device and a host that sends the queries and an injection

QueryCommands == NullaryCommands \ {ResetDyeInjectedCmd}

QueryRunLines == QueryCommands \cup {InjectTwoStages}

HostStartQueryRun == HostStart(QueryRunLines)

NextQuery ==
    \/ LoopIdle
    \/ LoopDispatch
    \/ ExecuteStage
    \/ SerialEventRead
    \/ SerialEventReturn
    \/ HostStartQueryRun
    \/ HostSendByte

SpecQuery == Init /\ [][NextQuery]_vars

\* --- the device and a host that sends a line longer than the line buffer

\* the letters a, b, ... j, a, ... : n of them
Padding(n) == [k \in 1..n |-> LowerSeq[((k - 1) % 10) + 1]]

\* "Inject: 7 3" followed by letters, commandFromComputerMaxLength - 1
\* characters in all
LongTail ==
    InjectPrefix \o <<"7", " ", "3">>
      \o Padding(commandFromComputerMaxLength - 1 - Len(InjectPrefix) - 3)

\* a line longer than the line buffer by LongExtra characters
LongLine == Padding(LongExtra + 1) \o LongTail

LongRunLines == {<< >>, LongLine}

\* the host starts a line; it sends at most MaxLongLines long lines
HostStartLongRun ==
    /\ HostStart(LongRunLines)
    /\ Cardinality({k \in 1..Len(sentLines') : sentLines'[k] = LongLine})
         <= MaxLongLines

NextLong ==
    \/ LoopIdle
    \/ LoopDispatch
    \/ ExecuteStage
    \/ SerialEventRead
    \/ SerialEventReturn
    \/ HostStartLongRun
    \/ HostSendByte

SpecLong == Init /\ [][NextLong]_vars

\* --- the dispatch of one received line, over a generated set of lines

\* the letter in the other case; any other character unchanged
FlipCase(c) ==
    IF \E k \in 1..26 : LowerSeq[k] = c
    THEN UpperSeq[CHOOSE k \in 1..26 : LowerSeq[k] = c]
    ELSE IF \E k \in 1..26 : UpperSeq[k] = c
    THEN LowerSeq[CHOOSE k \in 1..26 : UpperSeq[k] = c]
    ELSE c

\* the texts one edit away from s: a character dropped, inserted, or changed
\* in case
Variants(s) ==
    {SubSeq(s, 1, k - 1) \o SubSeq(s, k + 1, Len(s)) : k \in 1..Len(s)}
    \cup {SubSeq(s, 1, k) \o <<c>> \o SubSeq(s, k + 1, Len(s)) :
            k \in 0..Len(s), c \in {"x", " ", "?"}}
    \cup {[s EXCEPT ![k] = FlipCase(s[k])] : k \in 1..Len(s)}

\* the pieces an Inject command is put together from:
\* "12 3", "-4 1", "5 0", "6" and the empty piece
Pieces ==
    { <<"1", "2", " ", "3">>, <<"-", "4", " ", "1">>, <<"5", " ", "0">>,
      <<"6">>, << >> }

RECURSIVE Join(_)
Join(ps) ==
    IF ps = << >> THEN << >>
    ELSE IF Len(ps) = 1 THEN ps[1]
    ELSE ps[1] \o <<",">> \o Join(Tail(ps))

PieceLists == UNION {[1..k -> Pieces] : k \in 0..MaxPieces}

InjectLines == {InjectPrefix \o Join(ps) : ps \in PieceLists}

\* stages with numerals at and beyond the ends of the 16-bit range, and 0:
\* "40000 1", "-40000 1", "32767 1", "-32767 1", "32768 1", "-32768 1", "65537 1", "0 5", "9 70000"
WideStages ==
    { <<"4", "0", "0", "0", "0", " ", "1">>,
      <<"-", "4", "0", "0", "0", "0", " ", "1">>,
      <<"3", "2", "7", "6", "7", " ", "1">>,
      <<"-", "3", "2", "7", "6", "7", " ", "1">>,
      <<"3", "2", "7", "6", "8", " ", "1">>,
      <<"-", "3", "2", "7", "6", "8", " ", "1">>,
      <<"6", "5", "5", "3", "7", " ", "1">>,
      <<"0", " ", "5">>,
      <<"9", " ", "7", "0", "0", "0", "0">> }

WideLines == {InjectPrefix \o p : p \in WideStages}

ParseLines ==
    NullaryCommands
    \cup UNION {Variants(c) : c \in NullaryCommands}
    \cup Variants(InjectTwoStages)
    \cup InjectLines
    \cup WideLines
    \cup {<< >>}

\* one line of ParseLines has been received and is complete
InitParse ==
    /\ \E line \in ParseLines :
         /\ commandFromComputerString = Append(line, NL)
         /\ sentLines = <<line>>
    /\ commandFromComputerComplete = TRUE
    /\ dyeInjected = 0
    /\ injectionStageSpeeds = [k \in 0..(MAX_INJECTION_STAGES - 1) |-> 0]
    /\ injectionStageSteps = [k \in 0..(MAX_INJECTION_STAGES - 1) |-> 0]
    /\ numberStages = 0
    /\ i = 0
    /\ pc = "loop"
    /\ rx = << >>
    /\ trace = << >>
    /\ dispatched = << >>
    /\ toSend = << >>
    /\ pipelined = FALSE

NextParse ==
    \/ LoopDispatch
    \/ ExecuteStage

SpecParse == InitParse /\ [][NextParse]_vars

TypeOK ==
    /\ commandFromComputerComplete \in BOOLEAN
    /\ Len(commandFromComputerString) <= commandFromComputerMaxLength
    /\ pc \in {"loop", "stage", "serialEvent"}
    /\ Len(rx) <= MaxRx

\* ------------------------------------------------------------------ claims

\* what a command says, read independently of processInjectCommand

RECURSIVE SplitOn(_, _)
SplitOn(s, c) ==
    IF IndexOf(s, c) = -1 THEN <<s>>
    ELSE <<SubSeq(s, 1, IndexOf(s, c))>>
           \o SplitOn(SubSeq(s, IndexOf(s, c) + 2, Len(s)), c)

\* the comma-separated pieces after the "Inject: " prefix
WrittenPieces(line) == SplitOn(SubSeq(line, Len(InjectPrefix) + 1, Len(line)), ",")

IsNumeral(t) == t # << >> /\ \A k \in 1..Len(t) : t[k] \in DigitChars

NumeralValue(t) == Digits(t, 0)

\* integer SP unsigned-integer
IsStage(p) ==
    /\ Cardinality({k \in 1..Len(p) : p[k] = " "}) = 1
    /\ LET sp    == IndexOf(p, " ") + 1
           steps == SubSeq(p, 1, sp - 1)
           speed == SubSeq(p, sp + 1, Len(p))
       IN  /\ IsNumeral(speed)
           /\ \/ IsNumeral(steps)
              \/ steps # << >> /\ steps[1] = "-" /\ IsNumeral(Tail(steps))

\* the <<steps, speed>> a stage says
StageValue(p) ==
    LET sp    == IndexOf(p, " ") + 1
        steps == SubSeq(p, 1, sp - 1)
        speed == SubSeq(p, sp + 1, Len(p))
    IN  << IF steps[1] = "-" THEN 0 - NumeralValue(Tail(steps))
           ELSE NumeralValue(steps),
           NumeralValue(speed) >>

\* "Inject: " followed by stages, each integer SP unsigned-integer
IsStageList(line) ==
    /\ StartsWith(line, InjectPrefix)
    /\ \A k \in 1..Len(WrittenPieces(line)) : IsStage(WrittenPieces(line)[k])

Magnitude(x) == IF x < 0 THEN 0 - x ELSE x

RECURSIVE SumOfSteps(_)
SumOfSteps(n) ==
    IF n = 0 THEN 0 ELSE SumOfSteps(n - 1) + injectionStageSteps[n - 1]

StepCalls == SelectSeq(trace, LAMBDA e : e.ev = "step")

SetSpeedCalls == SelectSeq(trace, LAMBDA e : e.ev = "setSpeed")

Executing == Response("Executing")

Invalid == Response("Invalid")

\* the line that was dispatched, in SpecParse
TheLine == sentLines[1]

\* C1: when an Inject command is answered "Executing", the motor is given
\* one step call per parsed stage, in the order of the stages, the k-th with
\* the direction and magnitude of the k-th steps value after a setSpeed of
\* the k-th speed, and the counter has moved by the sum of the steps times
\* volumePerRevolution / stepsPerRevolution; when the command is a list of
\* stages as the grammar writes them, the parsed stages are the written ones
\* in the written order, as an int and an unsigned int hold them.
C1_InjectRunsTheWrittenStages ==
    (Responses # << >> /\ Responses[1] = Executing) =>
        /\ Len(StepCalls) = i
        /\ Len(SetSpeedCalls) = i
        /\ Len(MotorCalls) = 3 * i
        /\ pc # "stage" => i = numberStages
        /\ \A k \in 1..i :
             /\ StepCalls[k].n = Magnitude(injectionStageSteps[k - 1])
             /\ injectionStageSteps[k - 1] > 0 => StepCalls[k].dir = "FORWARD"
             /\ injectionStageSteps[k - 1] < 0 => StepCalls[k].dir = "BACKWARD"
             /\ SetSpeedCalls[k].n = injectionStageSpeeds[k - 1]
        /\ dyeInjected * stepsPerRevolution = SumOfSteps(i) * volumePerRevolution
        /\ IsStageList(TheLine) =>
             /\ numberStages = Len(WrittenPieces(TheLine))
             /\ \A k \in 1..numberStages :
                  <<injectionStageSteps[k - 1], injectionStageSpeeds[k - 1]>>
                    = << ToInt16(StageValue(WrittenPieces(TheLine)[k])[1]),
                         ToUInt16(StageValue(WrittenPieces(TheLine)[k])[2]) >>

\* C1 witness: "Inject: 12 3,-4 1,5 0,12 3" has run all of its four stages
C1_Witness ==
    /\ TheLine = InjectPrefix \o
         <<"1", "2", " ", "3", ",", "-", "4", " ", "1", ",",
           "5", " ", "0", ",", "1", "2", " ", "3">>
    /\ Responses = <<Executing>>
    /\ pc = "serialEvent"
    /\ Len(StepCalls) = 4
    /\ StepCalls[2] = StepCall(4, "BACKWARD")
    /\ dyeInjected = 25 * 75

HasSpace(p) == \E k \in 1..Len(p) : p[k] = " "

\* the pieces of the command that are stages: they have the space that
\* separates the steps from the speed
StagesIn(line) ==
    SelectSeq(WrittenPieces(line), LAMBDA p : HasSpace(p))

NothingExecuted ==
    /\ Responses \in {<< >>, <<Invalid>>}
    /\ MotorCalls = << >>
    /\ dyeInjected = 0

\* C2: an Inject command with more than 4 comma-separated stages is answered
\* "Invalid" and nothing else: no "Executing", no motor call, and the counter
\* is unchanged.
C2_FifthStageIsInvalid ==
    (StartsWith(TheLine, InjectPrefix) /\ Len(StagesIn(TheLine)) > 4) =>
        /\ NothingExecuted
        /\ dispatched # << >> => Responses = <<Invalid>>

\* C2 witness: "Inject: 12 3,-4 1,5 0,12 3,-4 1" has been answered
C2_Witness ==
    /\ TheLine = InjectPrefix \o
         <<"1", "2", " ", "3", ",", "-", "4", " ", "1", ",", "5", " ", "0", ",",
           "1", "2", " ", "3", ",", "-", "4", " ", "1">>
    /\ dispatched = <<TheLine>>
    /\ Responses = <<Invalid>>
    /\ pc = "serialEvent"

\* C3: an Inject command that is answered "Executing" executes at least 1
\* and at most 4 stages.
C3_AcceptedInjectHasOneToFourStages ==
    (Responses # << >> /\ Responses[1] = Executing) =>
        (1 <= numberStages /\ numberStages <= MAX_INJECTION_STAGES)

\* C5: every speed given to setSpeed is greater than 0.
C5_EverySpeedIsPositive ==
    \A k \in 1..Len(SetSpeedCalls) : SetSpeedCalls[k].n > 0

\* C6: an Inject command with a comma-separated stage that has text but not
\* the space between steps and speed is answered "Invalid" and executes
\* no stage.
C6_StageWithoutSpaceIsInvalid ==
    ( /\ StartsWith(TheLine, InjectPrefix)
      /\ \E k \in 1..Len(WrittenPieces(TheLine)) :
           /\ WrittenPieces(TheLine)[k] # << >>
           /\ ~HasSpace(WrittenPieces(TheLine)[k]) )
    => /\ Responses \in {<< >>, <<Invalid>>}
       /\ MotorCalls = << >>

\* C9: a dispatched line that is none of the seven commands without
\* arguments and does not start with "Inject: " is answered "Invalid".
C9_UnrecognizedLineIsInvalid ==
    ( /\ dispatched # << >>
      /\ TheLine \notin NullaryCommands
      /\ ~StartsWith(TheLine, InjectPrefix) )
    => Responses = <<Invalid>>

\* C9 witness: "Status?x", with a character after the command, is answered
\* "Invalid"
C9_Witness ==
    /\ TheLine = Append(StatusCmd, "x")
    /\ dispatched = <<TheLine>>
    /\ Responses = <<Invalid>>

\* --- the device and its host (Spec, SpecLong)

Last(q) == q[Len(q)]

LastChars(s, n) == SubSeq(s, Len(s) - n + 1, Len(s))

IsPrefix(p, q) == Len(p) <= Len(q) /\ \A k \in 1..Len(p) : p[k] = q[k]

\* every byte the host sent has been read and loop() has nothing to handle
AllHandled ==
    /\ pc = "loop"
    /\ ~commandFromComputerComplete
    /\ rx = << >>
    /\ toSend = << >>

\* C4 as stated: every line received is dispatched and answered, in the
\* order received, however the bytes are batched.
C4_EveryLineIsDispatched ==
    AllHandled =>
        /\ dispatched = sentLines
        /\ Len(Responses) = Len(sentLines)

\* C4 as amended: when the host starts each line only after the answer to
\* the previous one, every line is dispatched and answered once, in the order
\* received, however its bytes are batched.
C4_AnsweredLinesAreDispatchedInOrder ==
    ~pipelined =>
        /\ IsPrefix(dispatched, sentLines)
        /\ Len(Responses) = Len(dispatched)
        /\ AllHandled => dispatched = sentLines

\* C4 witness: an Inject command and then "Status?", sent after the answer
\* "Executing", have both been dispatched
C4_Witness ==
    /\ ~pipelined
    /\ AllHandled
    /\ sentLines = <<InjectTwoStages, StatusCmd>>
    /\ dispatched = sentLines
    /\ Responses = <<Executing, Response("OK")>>

C8_ResetClearsTheCounter ==
    [][ (dispatched' # dispatched /\ Last(dispatched') = ResetDyeInjectedCmd)
        => (dyeInjected' = 0 /\ trace' = Append(trace, Response("ACK"))) ]_vars

\* C8 witness: ResetDyeInjected has been handled after an injection
C8_Witness ==
    /\ sentLines = <<InjectTwoStages, ResetDyeInjectedCmd>>
    /\ dispatched = sentLines
    /\ Len(MotorCalls) = 6
    /\ Last(trace) = Response("ACK")
    /\ dyeInjected = 0

\* C10: "Executing" is written before the first motor call of the command,
\* and once for the command: every command gets one response line, and the
\* response line before any motor call is "Executing".
C10_ExecutingOnceBeforeTheMotor ==
    /\ Len(Responses) = Len(dispatched)
    /\ \A k \in 1..Len(trace) :
         trace[k].ev # "serial" =>
           \E j \in 1..(k - 1) :
             /\ trace[j] = Executing
             /\ \A m \in (j + 1)..(k - 1) : trace[m].ev # "serial"

\* C10 witness: a second command was answered "Executing" and has run two
\* stages
C10_Witness ==
    /\ Len(trace) = 8
    /\ trace[1].ev = "serial"
    /\ trace[2] = Executing
    /\ trace[3].ev = "setSpeed"
    /\ trace[6].ev = "setSpeed"
    /\ trace[8] = ReleaseCall

\* C11: from the answer "Executing" until the last stage is done, each step
\* of the device runs the next parsed stage and nothing else: no response
\* is written, no byte is added to the line buffer, nothing is dispatched,
\* the stages are not changed, and the stage loop is left only after the
\* last stage.
C11_StagesRunToCompletion ==
    [][ pc = "stage" =>
          /\ Responses' = Responses
          /\ dispatched' = dispatched
          /\ numberStages' = numberStages
          /\ injectionStageSteps' = injectionStageSteps
          /\ injectionStageSpeeds' = injectionStageSpeeds
          /\ \/ /\ i' = i
                /\ pc' = "stage"
                /\ trace' = trace
                /\ commandFromComputerString' = commandFromComputerString
                /\ commandFromComputerComplete' = commandFromComputerComplete
             \/ /\ i' = i + 1
                /\ MotorCalls' = MotorCalls \o
                     << SetSpeedCall(injectionStageSpeeds[i]),
                        StepCall(Magnitude(injectionStageSteps[i]),
                                 IF injectionStageSteps[i] > 0
                                 THEN "FORWARD" ELSE "BACKWARD"),
                        ReleaseCall >>
                /\ IF i + 1 < numberStages
                   THEN /\ pc' = "stage"
                        /\ commandFromComputerString' = commandFromComputerString
                   ELSE /\ pc' = "serialEvent"
                        /\ commandFromComputerString' = << >> ]_vars

\* C11 witness: the first of two stages is done and bytes of the next line
\* have arrived and wait
C11_Witness ==
    /\ pc = "stage"
    /\ i = 1
    /\ numberStages = 2
    /\ rx = <<"S", "t", "a">>
    /\ commandFromComputerString = InjectTwoStages

\* the response each query is documented to get
QueryResponse(cmd) ==
    IF cmd = StatusCmd THEN Response("OK")
    ELSE IF cmd = ProgramCmd THEN Response("Dye Injector")
    ELSE IF cmd = VersionCmd THEN Response("0.1")
    ELSE IF cmd = StepsPerRevolutionCmd THEN UIntResponse(200)
    ELSE IF cmd = VolumePerRevolutionCmd THEN floatToString(15000)
    ELSE floatToString(dyeInjected)

\* C12: handling any of the six queries leaves the counter unchanged and
\* makes no motor call: the one event of the step is the query's response.
C12_QueriesChangeNothing ==
    [][ (dispatched' # dispatched /\ Last(dispatched') \in QueryCommands)
        => /\ dyeInjected' = dyeInjected
           /\ MotorCalls' = MotorCalls
           /\ trace' = Append(trace, QueryResponse(Last(dispatched'))) ]_vars

\* C12 witness: after an injection, DyeInjected? was answered with the
\* counter, which is still 13 steps
C12_Witness ==
    /\ dispatched = <<InjectTwoStages, DyeInjectedCmd>>
    /\ Last(trace) = floatToString(13 * 75)
    /\ dyeInjected = 13 * 75
    /\ Len(MotorCalls) = 6

\* the response a line of HostLines is documented to get
NormalResponse(line) ==
    IF line = StatusCmd THEN Response("OK")
    ELSE IF line = ResetDyeInjectedCmd THEN Response("ACK")
    ELSE IF line = InjectTwoStages THEN Executing
    ELSE Invalid

\* after an "Invalid", a line started after that answer is dispatched as
\* sent and gets its normal response
ReadyAfterInvalid ==
    \A k \in 2..Len(dispatched) :
        ( /\ ~pipelined
          /\ k <= Len(sentLines)
          /\ Responses[k - 1] = Invalid )
        => /\ dispatched[k] = sentLines[k]
           /\ Responses[k] = NormalResponse(sentLines[k])

\* C13: a command answered "Invalid" makes no motor call and leaves the
\* counter unchanged, and leaves the line buffer empty and the flag false;
\* a command that arrives afterwards gets its normal response.
C13_InvalidChangesNothing ==
    [][ /\ (dispatched' # dispatched /\ Last(trace') = Invalid)
           => /\ trace' = Append(trace, Invalid)
              /\ dyeInjected' = dyeInjected
              /\ commandFromComputerString' = << >>
              /\ commandFromComputerComplete' = FALSE
              /\ pc' = "serialEvent"
        /\ ReadyAfterInvalid' ]_vars

\* C13 witness: "Inject: 5" was answered "Invalid", and the Inject command
\* sent after it has been executed
C13_Witness ==
    /\ ~pipelined
    /\ dispatched = <<InjectNoSpeed, InjectTwoStages>>
    /\ Responses = <<Invalid, Executing>>
    /\ Len(MotorCalls) = 6
    /\ dyeInjected = 13 * 75

\* the volume the motor calls after the last "ACK" amount to: a step call
\* of n steps FORWARD adds, and BACKWARD takes away,
\* n * volumePerRevolution / stepsPerRevolution
RECURSIVE VolumeSinceReset(_)
VolumeSinceReset(t) ==
    IF t = << >> THEN 0
    ELSE IF Last(t) = Response("ACK") THEN 0
    ELSE IF Last(t).ev = "step"
         THEN VolumeSinceReset(SubSeq(t, 1, Len(t) - 1))
                + ((IF Last(t).dir = "FORWARD" THEN Last(t).n ELSE 0 - Last(t).n)
                     * volumePerRevolution) \div stepsPerRevolution
    ELSE VolumeSinceReset(SubSeq(t, 1, Len(t) - 1))

\* C14: in every reachable state the counter is the sum of the signed
\* contributions of the stages executed since the last ResetDyeInjected, or
\* since the start.
C14_CounterIsSumSinceReset == dyeInjected = VolumeSinceReset(trace)

\* C14 witness: a second Inject command has run its first stage, and the
\* counter holds 20 - 7 + 20 steps
C14_Witness ==
    /\ dispatched = <<InjectTwoStages, InjectTwoStages>>
    /\ pc = "stage"
    /\ i = 1
    /\ dyeInjected = 33 * 75

NewlinesRead ==
    Len(sentLines) - (IF toSend # << >> THEN 1 ELSE 0)
      - Cardinality({k \in 1..Len(rx) : rx[k] = NL})

\* C16: when loop() has handled a command the line buffer is empty and the
\* flag is false; a dispatch needs the flag, adds one command and one
\* response, and there are never more dispatches than newlines read, with
\* one to spare while the flag waits to be handled.
C16_OneDispatchPerTerminator ==
    [][ /\ ( /\ pc' = "serialEvent"
             /\ \/ pc = "stage"
                \/ pc = "loop" /\ dispatched' # dispatched )
           => /\ commandFromComputerString' = << >>
              /\ commandFromComputerComplete' = FALSE
        /\ dispatched' # dispatched
           => /\ commandFromComputerComplete
              /\ pc = "loop"
              /\ Len(dispatched') = Len(dispatched) + 1
        /\ Len(Responses') = Len(dispatched')
        /\ Len(dispatched')
             + (IF commandFromComputerComplete' /\ pc' # "stage" THEN 1 ELSE 0)
             <= NewlinesRead' ]_vars

\* C16 witness: two lines were read together; one dispatch and one response
\* were made, and the buffer and the flag are clear
C16_Witness ==
    /\ sentLines = <<StatusCmd, ResetDyeInjectedCmd>>
    /\ AllHandled
    /\ commandFromComputerString = << >>
    /\ dispatched = <<StatusCmd>>
    /\ Responses = <<Response("OK")>>

\* C17: the line buffer never holds more than commandFromComputerMaxLength
\* characters; a byte read while it is full drops the oldest character,
\* keeps the others in order and becomes the last; a byte read while it is
\* not full is appended.
C17_BufferDropsOldestWhenFull ==
    [][ /\ Len(commandFromComputerString') <= commandFromComputerMaxLength
        /\ (rx # << >> /\ rx' = Tail(rx)) =>
             IF Len(commandFromComputerString) < commandFromComputerMaxLength
             THEN commandFromComputerString'
                    = commandFromComputerString \o <<Head(rx)>>
             ELSE commandFromComputerString'
                    = Tail(commandFromComputerString) \o <<Head(rx)>> ]_vars

\* C17 witness: the whole long line has been read into an empty buffer, and
\* the buffer holds its last commandFromComputerMaxLength characters
C17_Witness ==
    /\ sentLines = <<LongLine>>
    /\ dispatched = << >>
    /\ ~commandFromComputerComplete
    /\ commandFromComputerString = LastChars(LongLine, commandFromComputerMaxLength)

\* C18 as stated: for every stage of an accepted Inject command the step
\* count is the absolute value of the written steps numeral, and the
\* direction is FORWARD exactly when the numeral is positive and BACKWARD
\* exactly when it is negative, whatever the numeral.
C18_StepsAreTheNumeral ==
    (IsStageList(TheLine) /\ Responses # << >> /\ Responses[1] = Executing) =>
        \A k \in 1..i :
            LET v == StageValue(WrittenPieces(TheLine)[k])[1]
            IN  /\ StepCalls[k].n = Magnitude(v)
                /\ StepCalls[k].dir = "FORWARD" <=> v > 0
                /\ StepCalls[k].dir = "BACKWARD" <=> v < 0

\* C18 as amended: for a steps numeral from -32767 to 32767 the step count
\* is its absolute value and the direction is FORWARD exactly when it is
\* positive, and BACKWARD otherwise.
C18_StepsAreTheNumeralInRange ==
    (IsStageList(TheLine) /\ Responses # << >> /\ Responses[1] = Executing) =>
        \A k \in 1..i :
            LET v == StageValue(WrittenPieces(TheLine)[k])[1]
            IN  (0 - 32767 <= v /\ v <= 32767) =>
                    /\ StepCalls[k].n = Magnitude(v)
                    /\ StepCalls[k].dir = "FORWARD" <=> v > 0
                    /\ StepCalls[k].dir = "BACKWARD" <=> v <= 0

\* C18 witness: "Inject: -32767 1" has run
C18_Witness ==
    /\ TheLine = InjectPrefix \o <<"-", "3", "2", "7", "6", "7", " ", "1">>
    /\ Responses = <<Executing>>
    /\ pc = "serialEvent"
    /\ MotorCalls = <<SetSpeedCall(1), StepCall(32767, "BACKWARD"), ReleaseCall>>

\* C19: whenever the flag is set and loop() has not yet trimmed the text,
\* the line buffer contains a newline.
C19_FlagMeansNewlineInBuffer ==
    (commandFromComputerComplete /\ pc # "stage") =>
        \E k \in 1..Len(commandFromComputerString) :
            commandFromComputerString[k] = NL

\* C20: an Inject command of k stages as the grammar writes them, 1 <= k <= 4,
\* followed by one more comma, gets the verdict that its first stage followed
\* by a comma gets.
C20_TrailingCommaVerdictIsTheSame ==
    ( /\ StartsWith(TheLine, InjectPrefix)
      /\ dispatched # << >>
      /\ Len(WrittenPieces(TheLine)) \in 2..(MAX_INJECTION_STAGES + 1)
      /\ Last(WrittenPieces(TheLine)) = << >>
      /\ \A k \in 1..(Len(WrittenPieces(TheLine)) - 1) :
           IsStage(WrittenPieces(TheLine)[k]) )
    => ( (Responses[1] = Invalid)
         <=> (processInjectCommand(
                InjectPrefix \o WrittenPieces(TheLine)[1] \o <<",">>,
                injectionStageSteps, injectionStageSpeeds).ret = -1) )

====
